---- MODULE Spec2Model ----
(***************************************************************************)
(* Model of BaseRunner (src/src/BaseRunner.ts): the lifecycle controller   *)
(* of a unit of asynchronous work.                                         *)
(*                                                                         *)
(* Every public call (run, stop, skip, fail) that is accepted becomes an   *)
(* invocation: a process with a position (pc) at one of the `await`s of    *)
(* its method.  An action is the synchronous code between two awaits.      *)
(* The user hooks (internalPrepare, internalRun, internalRelease,          *)
(* internalStop, internalFinally) complete when the environment decides,   *)
(* with the outcome the environment decides.                               *)
(***************************************************************************)
EXTENDS Integers, Sequences, FiniteSets, TLC

\* ---------------------------------------------------------------- bounds
MaxCalls == 3      \* public calls made on the instance
MaxRuns == 2       \* of which accepted run() calls

Procs == 1..MaxCalls

\* ------------------------------------------------------- enums and maps
Idle == "idle"
Preparing == "preparing"
Running == "running"
Releasing == "releasing"
Succeeded == "succeeded"
Error == "error"
Failed == "failed"
Stopping == "stopping"
Stopped == "stopped"
Skipped == "skipped"
TimedOut == "timed-out"

Status == {Idle, Preparing, Running, Releasing, Succeeded, Error, Failed,
           Stopping, Stopped, Skipped, TimedOut}

Terminal == {Succeeded, Failed, Error, Stopped, Skipped, TimedOut}

STATUS_LEVEL_MAP(st) ==
  CASE st = Idle -> 0
    [] st = Preparing -> 1
    [] st \in {Running, Stopping} -> 2
    [] st = Releasing -> 3
    [] OTHER -> 4

LEVEL_STATUSES_MAP(l) ==
  CASE l = 0 -> {Idle}
    [] l = 1 -> {Preparing}
    [] l = 2 -> {Running, Stopping}
    [] l = 3 -> {Releasing}
    [] OTHER -> {Stopped, Failed, Error, Succeeded, Skipped, TimedOut}

Single == "single"
Multi == "multi"
Always == "always"
Never == "never"
OnFirstRun == "on-first-run"

\* arguments and outcomes the environment draws from
SkipReasons == {"s1"}
FailReasons == {"f2"}
\* every stop() call passes a reason of its own
StopReason(p) == "stop " \o ToString(p)
RunResults == {"", "f1"}          \* "" is undefined (no failure reason)
TimeoutReason == "Runner timed out"

MsgPrepare == "Runner preparation failed"
MsgRun == "Run failed"
MsgRelease == "Release failed"
MsgFinally == "Internal finally failed"
MsgStop == "Attempt to stop runner failed"

\* ---------------------------------------------------------------- state
VARIABLES
  options,   \* the constructor options and whether 'warning' has listeners
  r,         \* the private fields of the runner; finishedAt and measurement
             \* are TRUE when the field is not null; _startedAt and _measurer
             \* always hold a value and are left out
  proc       \* the invocations: one per public call.  proc[p].log is the
             \* history of invocation p (status assignments, hook calls and
             \* emitted events, in order); it is kept until the call has
             \* returned and been looked at

vars == <<options, r, proc>>

NoProc ==
  [kind |-> "none", pc |-> "unused", site |-> 0, ret |-> FALSE,
   internalRunCompleted |-> FALSE, runPromise |-> "none",
   thenAttached |-> FALSE, timer |-> FALSE,
   term |-> "", msg |-> "", how |-> "", level |-> 0, log |-> <<>>]

\* what is kept of an invocation that returned: that it was made, whether
\* it was an accepted run(), and what it left behind (a pending timer, a
\* pending promise of internalRun with the then-callback of line 230)
Returned(pr) ==
  [NoProc EXCEPT !.pc = "done",
                 !.kind = IF pr.kind = "run" /\ pr.pc = "returned"
                          THEN "run" ELSE "other",
                 !.timer = pr.timer,
                 !.runPromise = IF pr.runPromise = "pending" THEN "pending"
                                ELSE "none",
                 !.thenAttached = pr.thenAttached /\ pr.runPromise = "pending"]

\* pcs at which the continuation is already queued as a microtask
MicroPcs == {"chk1", "chkRet", "rDisp", "tmoStop", "raceDone", "sAfter"}

\* the promise of internalRun: "none" before the call, "pending", one of
\* Settled, and "observed" once run() or its then-callback has taken the outcome
Settled == {"", "f1", "threw"}

Active(pr) == pr.pc \notin {"unused", "done", "returned", "rejected"}

\* a microtask is queued: no timer callback (a macrotask) can run now
MicroPending ==
  \E p \in Procs :
    \/ proc[p].pc \in MicroPcs
    \/ proc[p].pc = "awaitRun" /\ proc[p].runPromise \in Settled

\* -------------------------------------------- synchronous building blocks
\* A block maps a pair s = [r, proc] to the pair after the block ran in
\* invocation p.

Log(s, p, e) ==
  [s EXCEPT !.proc[p].log = Append(@, e)]

Goto(s, p, pc) == [s EXCEPT !.proc[p].pc = pc]

SetStatus(s, p, st) ==
  Log([s EXCEPT !.r.status = st], p, <<"set", st, "">>)

CallHook(s, p, h) == Log(s, p, <<"call", h, "">>)

\* emit(name): listeners run synchronously; the waiters of
\* waitForStatusLevel registered with waitFor(name) are resolved.  The
\* emitter (@universal-packages/event-emitter) is taken not to throw
Emit(s, p, name, detail) ==
  LET woken == {q \in Procs : s.proc[q].pc = "wait"
                                /\ name \in LEVEL_STATUSES_MAP(s.proc[q].level)}
      s1 == Log(s, p, <<"emit", name, detail>>)
  IN [s1 EXCEPT !.proc = [q \in Procs |->
                            IF q \in woken THEN [s1.proc[q] EXCEPT !.pc = "returned"]
                            ELSE s1.proc[q]]]

\* `if (this._timeout) clearTimeout(this._timeout)`.  r.timeout is the
\* invocation whose pending timer the field holds, 0 when the field is null
\* or holds a timer that fired or was cleared (clearing that one does nothing)
ClearTimeout(s) ==
  IF s.r.timeout # 0
  THEN [s EXCEPT !.proc[s.r.timeout].timer = FALSE, !.r.timeout = 0]
  ELSE s

ResetToIdle(s) ==
  [s EXCEPT !.r.status = Idle, !.r.timeout = 0, !.r.stoppingReason = "",
            !.r.markedAsStopping = FALSE, !.r.stoppingIsActive = FALSE,
            !.r.runHasFinished = FALSE, !.r.finishedAt = FALSE,
            !.r.timedOut = FALSE]

ResetIfMultiMode(s) ==
  IF options.runMode = Multi THEN ResetToIdle(s) ELSE s

\* _attemptStop after the optional `await this.internalStop()`
AttemptStopTail(s, p) ==
  LET s1 == ClearTimeout(s)
      s2 == Emit(s1, p, Stopping, s1.r.stoppingReason)
      s3 == SetStatus(s2, p, Stopping)
  IN [s3 EXCEPT !.r.stoppingIsActive = TRUE]

AttemptStopCatch(s, p) == Emit(s, p, Error, MsgStop)

\* an _executeInternalFinally whose catch also moves the runner to Error
ExecuteInternalFinallyTailSetsError(s, p, ok) ==
  IF ok THEN s ELSE Emit(SetStatus(s, p, Error), p, Error, MsgFinally)

\* _executeInternalFinally after `await this.internalFinally()`
ExecuteInternalFinallyTail(s, p, ok) ==
  IF ok THEN s ELSE Emit(s, p, Error, MsgFinally)

\* a catch block that does not call internalFinally
CatchPhaseWithoutFinally(s, p, err, msg) ==
  LET s1 == SetStatus(s, p, Error)
      s2 == [s1 EXCEPT !.r.error = err, !.proc[p].msg = msg]
  IN Goto(s2, p, "errFin")

\* the catch blocks of run(): status, error, then the call of internalFinally
CatchPhase(s, p, err, msg) ==
  LET s1 == SetStatus(s, p, Error)
      s2 == [s1 EXCEPT !.r.error = err, !.proc[p].msg = msg]
  IN Goto(CallHook(s2, p, "finally"), p, "errFin")

\* a terminal decision that looks at the failure reason before the stop
TerminalDecisionFailureFirst(s, p) ==
  LET st == IF s.r.failureReason # "" THEN Failed
            ELSE IF s.r.stoppingIsActive
            THEN (IF s.r.timedOut THEN TimedOut ELSE Stopped)
            ELSE Succeeded
      s1 == SetStatus(s, p, st)
      s2 == [s1 EXCEPT !.r.finishedAt = TRUE, !.r.measurement = TRUE,
                       !.proc[p].term = st]
  IN Goto(CallHook(s2, p, "finally"), p, "termFin")

\* run() lines 299-330 up to the call of internalFinally
TerminalDecision(s, p) ==
  LET st == IF s.r.stoppingIsActive
            THEN (IF s.r.timedOut THEN TimedOut ELSE Stopped)
            ELSE (IF s.r.failureReason # "" THEN Failed ELSE Succeeded)
      s1 == SetStatus(s, p, st)
      s2 == [s1 EXCEPT !.r.finishedAt = TRUE, !.r.measurement = TRUE,
                       !.proc[p].term = st]
  IN Goto(CallHook(s2, p, "finally"), p, "termFin")

\* a release policy that releases in single-run mode only
shouldReleaseSingleOnly ==
  options.runMode = Single

shouldRelease ==
  \/ options.runMode = Single
  \/ options.runMode = Multi /\ options.releaseOnMultiMode = Always

\* run() lines 268-286 up to the call of internalRelease, or on to 299
ReleaseOrDecide(s, p) ==
  IF shouldRelease
  THEN LET s1 == SetStatus(s, p, Releasing)
           s2 == Emit(s1, p, Releasing, "")
       IN Goto(CallHook(s2, p, "release"), p, "release")
  ELSE TerminalDecision(s, p)

\* run() lines 253-258, then 268
AfterRace(s, p) ==
  LET s1 == IF s.proc[p].internalRunCompleted
            THEN [s EXCEPT !.r.runHasFinished = TRUE] ELSE s
      \* the local internalRunCompleted is not read after line 254
      s2 == [s1 EXCEPT !.proc[p].internalRunCompleted = FALSE]
  IN ReleaseOrDecide(ClearTimeout(s2), p)

\* _checkForStopping(false) up to its first await: the synchronous part of
\* _dispatchMarkedAsStopping(false), which calls _attemptStop(false)
CheckForStoppingHead(s, p, site) ==
  LET s1 == IF s.r.markedAsStopping THEN AttemptStopTail(s, p) ELSE s
  IN Goto([s1 EXCEPT !.proc[p].site = site], p, "chk1")

Here == [r |-> r, proc |-> proc]

\* the callers have taken the outcome of every call that returned
NoneReturned == \A p \in Procs : proc[p].pc \notin {"returned", "rejected"}

Commit(s) == NoneReturned /\ r' = s.r /\ proc' = s.proc

FreeProcs == {p \in Procs : proc[p].kind = "none"}
NewProc == CHOOSE p \in FreeProcs : \A q \in FreeProcs : p <= q

\* an _emitWarningOrThrow that stays silent when 'warning' has no listener
EmitWarningOrIgnore(call, message) ==
  /\ NoneReturned
  /\ FreeProcs # {}
  /\ \E hasListeners \in BOOLEAN :
       proc' = [proc EXCEPT ![NewProc] =
                  [NoProc EXCEPT !.kind = call, !.pc = "rejected",
                                 !.msg = message,
                                 !.how = IF hasListeners THEN "warning"
                                         ELSE "ignored"]]
  /\ UNCHANGED <<options, r>>

\* _emitWarningOrThrow: the call ends here, with a 'warning' event when the
\* event has a listener (hasListeners) and with a thrown Error otherwise
EmitWarningOrThrow(call, message) ==
  /\ NoneReturned
  /\ FreeProcs # {}
  /\ \E hasListeners \in BOOLEAN :
       proc' = [proc EXCEPT ![NewProc] =
                  [NoProc EXCEPT !.kind = call, !.pc = "rejected",
                                 !.msg = message,
                                 !.how = IF hasListeners THEN "warning"
                                         ELSE "throw"]]
  /\ UNCHANGED <<options, r>>

\* ------------------------------------------------------------------ Init
Options(mode, prepare, release, timeout) ==
  [runMode |-> mode, prepareOnMultiMode |-> prepare,
   releaseOnMultiMode |-> release, timeout |-> timeout]

\* the constructor: the options given by the caller over the defaults
Constructor(given) ==
  LET defaults == Options(Single, Always, Never, FALSE)
  IN [k \in DOMAIN defaults |->
        IF k \in DOMAIN given THEN given[k] ELSE defaults[k]]

\* the option sets a runner is constructed with: single-run mode with the
\* defaults of the constructor, and multi-run mode with every pair of values
\* of the two policies and of the timeout (set or not)
Configs ==
  {Options(Single, Always, Never, FALSE), Options(Single, Always, Never, TRUE),
   Options(Multi, Always, Always, TRUE), Options(Multi, Always, Never, FALSE),
   Options(Multi, Never, Always, FALSE), Options(Multi, Never, Never, TRUE),
   Options(Multi, OnFirstRun, Always, FALSE),
   Options(Multi, OnFirstRun, Never, TRUE)}

Init ==
  /\ options \in Configs
  /\ r = [status |-> Idle, timeout |-> 0,
          stoppingReason |-> "", markedAsStopping |-> FALSE,
          stoppingIsActive |-> FALSE, failureReason |-> "",
          runHasFinished |-> FALSE, error |-> "", skipReason |-> "",
          finishedAt |-> FALSE, measurement |-> FALSE, timedOut |-> FALSE,
          prepared |-> FALSE]
  /\ proc = [p \in Procs |-> NoProc]


\* the startedAt getter: _startedAt, or null while Idle or Skipped
startedAt(x) == IF x.status \notin {Idle, Skipped} THEN "date" ELSE "null"

\* ----------------------------------------------------------------- run()
RunRejected ==
  /\ r.status # Idle
  /\ EmitWarningOrThrow("run",
       IF r.status \in {Running, Preparing, Releasing}
       THEN "Run was called but runner is already running"
       ELSE "Run was called but runner has already finished")

itShouldPrepare ==
  \/ options.runMode = Single
  \/ /\ options.runMode = Multi
     /\ \/ options.prepareOnMultiMode = Always
        \/ options.prepareOnMultiMode = OnFirstRun /\ ~r.prepared

\* run() from the call to its first await (line 181 or line 204)
RunAccepted ==
  /\ r.status = Idle
  /\ FreeProcs # {}
  /\ Cardinality({q \in Procs : proc[q].kind = "run"
                                 /\ proc[q].pc # "rejected"}) < MaxRuns
  /\ LET p == NewProc
         s0 == [r |-> r,
                proc |-> [proc EXCEPT ![p] = [NoProc EXCEPT !.kind = "run"]]]
     IN Commit(CheckForStoppingHead(s0, p, IF itShouldPrepare THEN 181 ELSE 204))
  /\ UNCHANGED options

\* _checkForStopping after `await this._dispatchMarkedAsStopping(...)`
CheckForStopping(p) ==
  /\ proc[p].pc = "chk1"
  /\ IF r.status = Stopping
     THEN Commit(Goto(CallHook(SetStatus(Here, p, Stopped), p, "finally"),
                      p, "chkFin"))
     ELSE Commit(Goto([Here EXCEPT !.proc[p].ret = FALSE], p, "chkRet"))
  /\ UNCHANGED options

\* a _checkForStopping that returns false after it stopped the runner
CheckForStoppingFinallyReturnsFalse(p, ok) ==
  /\ proc[p].pc = "chkFin"
  /\ LET s1 == ExecuteInternalFinallyTail(Here, p, ok)
         s2 == Emit(s1, p, Stopped, s1.r.stoppingReason)
         s3 == ResetIfMultiMode(s2)
     IN Commit(Goto([s3 EXCEPT !.proc[p].ret = FALSE], p, "chkRet"))
  /\ UNCHANGED options

\* _checkForStopping after `await this._executeInternalFinally()`
CheckForStoppingFinally(p, ok) ==
  /\ proc[p].pc = "chkFin"
  /\ LET s1 == ExecuteInternalFinallyTail(Here, p, ok)
         s2 == Emit(s1, p, Stopped, s1.r.stoppingReason)
         s3 == ResetIfMultiMode(s2)
     IN Commit(Goto([s3 EXCEPT !.proc[p].ret = TRUE], p, "chkRet"))
  /\ UNCHANGED options

\* a run() that invokes the run callback before it publishes 'running'
StartRunningCallsFirst(s, p) ==
  LET s1 == [CallHook(s, p, "run") EXCEPT !.proc[p].runPromise = "pending"]
      s2 == Emit(SetStatus(s1, p, Running), p, Running, "")
  IN IF s2.r.markedAsStopping
     THEN Goto(CallHook(s2, p, "stop"), p, "rStopHook")
     ELSE Goto(s2, p, "rDisp")

\* run() lines 207-214 up to the await of _dispatchMarkedAsStopping()
StartRunning(s, p) ==
  LET s1 == Emit(SetStatus(s, p, Running), p, Running, "")
      s2 == [CallHook(s1, p, "run") EXCEPT !.proc[p].runPromise = "pending"]
  IN IF s2.r.markedAsStopping
     THEN Goto(CallHook(s2, p, "stop"), p, "rStopHook")
     ELSE Goto(s2, p, "rDisp")

\* run() after `await this._checkForStopping(false)` (lines 181 and 204)
RunAfterCheck(p) ==
  /\ proc[p].pc = "chkRet"
  /\ IF proc[p].ret
     THEN Commit(Goto(Here, p, "returned"))
     ELSE IF proc[p].site = 181
     THEN LET s1 == Emit(SetStatus(Here, p, Preparing), p, Preparing, "")
          IN Commit(Goto(CallHook(s1, p, "prepare"), p, "prepare"))
     ELSE Commit(StartRunning(Here, p))
  /\ UNCHANGED options

\* run() after `await this.internalPrepare()`: lines 188-204 or the catch
PrepareDone(p, ok) ==
  /\ proc[p].pc = "prepare"
  /\ IF ok
     THEN LET s1 == Emit(Here, p, "prepared", "")
              s2 == [s1 EXCEPT !.r.prepared = TRUE]
          IN Commit(CheckForStoppingHead(s2, p, 204))
     ELSE Commit(CatchPhase(Here, p, "prepare error", MsgPrepare))
  /\ UNCHANGED options

\* _attemptStop(true) called from line 214, after `await this.internalStop()`
DispatchStopHookDone(p, ok) ==
  /\ proc[p].pc = "rStopHook"
  /\ Commit(Goto(IF ok THEN AttemptStopTail(Here, p)
                 ELSE AttemptStopCatch(Here, p), p, "rDisp"))
  /\ UNCHANGED options

\* the then-callback of lines 230-234, run when internalRun resolved with
\* `result`; the race resolves with it if it is still undecided (the history
\* of the invocation then records the result its run() received)
ThenCallback(s, p, result) ==
  LET s1 == [s EXCEPT !.r.failureReason = result,
                      !.proc[p].runPromise = "observed"]
  IN IF s.proc[p].pc = "race"
     THEN [Log(s1, p, <<"result", result, "">>) EXCEPT
             !.proc[p].internalRunCompleted = TRUE,
             !.proc[p].pc = "raceDone"]
     ELSE IF s.proc[p].pc = "tmoStop"
     THEN [s1 EXCEPT !.proc[p].internalRunCompleted = TRUE]
     ELSE s1

\* a run() that still releases when internalRun threw
RejectionThenRelease(s, p) ==
  LET s1 == [s EXCEPT !.proc[p].runPromise = "observed"]
  IN IF s.proc[p].pc \in {"race", "awaitRun"}
     THEN CatchPhase(CallHook(Emit(SetStatus(s1, p, Releasing),
                                   p, Releasing, ""), p, "release"),
                     p, "run error", MsgRun)
     ELSE s1

\* internalRun threw and the race is still undecided: the catch of line 259;
\* a rejection that comes later has no handler but the empty one of line 244
Rejection(s, p) ==
  LET s1 == [s EXCEPT !.proc[p].runPromise = "observed"]
  IN IF s.proc[p].pc \in {"race", "awaitRun"}
     THEN CatchPhase(s1, p, "run error", MsgRun)
     ELSE s1

\* run() after `await this._dispatchMarkedAsStopping()`: lines 217-236 or 249
StartAwaitingRun(p) ==
  /\ proc[p].pc = "rDisp"
  /\ IF options.timeout
     THEN LET s1 == [Here EXCEPT !.r.timeout = p, !.proc[p].timer = TRUE,
                                 !.proc[p].thenAttached = TRUE,
                                 !.proc[p].pc = "race"]
          IN Commit(CASE proc[p].runPromise \in RunResults ->
                           ThenCallback(s1, p, proc[p].runPromise)
                      [] proc[p].runPromise = "threw" -> Rejection(s1, p)
                      [] OTHER -> s1)
     ELSE Commit(Goto(Here, p, "awaitRun"))
  /\ UNCHANGED options

\* run() after `await internalRunPromise` of line 249, then 254-258, 268
AwaitRunResolved(s, p, result) ==
  AfterRace([Log(s, p, <<"result", result, "">>) EXCEPT
               !.r.failureReason = result,
               !.proc[p].runPromise = "observed",
               !.proc[p].internalRunCompleted = TRUE], p)

\* the promise returned by internalRun settles (user code), and whoever
\* observes it at that moment is notified
InternalRunSettles(p, outcome) ==
  /\ proc[p].runPromise = "pending"
  /\ Commit(CASE proc[p].thenAttached /\ outcome \in RunResults ->
                   ThenCallback(Here, p, outcome)
              [] proc[p].pc = "awaitRun" /\ outcome \in RunResults ->
                   AwaitRunResolved(Here, p, outcome)
              [] (proc[p].thenAttached \/ proc[p].pc = "awaitRun")
                    /\ outcome = "threw" -> Rejection(Here, p)
              [] OTHER -> [Here EXCEPT !.proc[p].runPromise = outcome])
  /\ UNCHANGED options

\* run() reaches `await internalRunPromise` of line 249 with the promise
\* already settled
AwaitRunSettled(p) ==
  /\ proc[p].pc = "awaitRun"
  /\ proc[p].runPromise \in Settled
  /\ Commit(IF proc[p].runPromise = "threw" THEN Rejection(Here, p)
            ELSE AwaitRunResolved(Here, p, proc[p].runPromise))
  /\ UNCHANGED options

\* run() after the race was won by internalRun: lines 239, 254-258, 268
RaceWonByRun(p) ==
  /\ proc[p].pc = "raceDone"
  /\ Commit(AfterRace(Here, p))
  /\ UNCHANGED options

\* the setTimeout callback of lines 220-226.  When run() is awaiting the
\* race, the race resolves and run() continues in the same task with lines
\* 239-241 (timeoutOccurred is true and internalRunCompleted false there),
\* up to the await of _attemptStop(false)
TimerFires(p) ==
  /\ proc[p].timer
  /\ ~MicroPending
  /\ LET s1 == [Here EXCEPT !.proc[p].timer = FALSE, !.r.timedOut = TRUE,
                            !.r.timeout = IF @ = p THEN 0 ELSE @]
     IN IF proc[p].pc = "race"
        THEN LET s2 == Log([s1 EXCEPT !.r.stoppingReason = TimeoutReason],
                           p, <<"timeout", "", "">>)
             IN Commit(Goto(AttemptStopTail(s2, p), p, "tmoStop"))
        ELSE Commit(s1)
  /\ UNCHANGED options

\* run() after `await this._attemptStop(false)` of line 241: 244-258, 268
RaceWonByTimeout(p) ==
  /\ proc[p].pc = "tmoStop"
  /\ Commit(AfterRace(Here, p))
  /\ UNCHANGED options

\* a release failure that records the error but keeps the run outcome
ReleaseDoneKeepsOutcome(p, ok) ==
  /\ proc[p].pc = "release"
  /\ IF ok
     THEN Commit(TerminalDecision(Emit(Here, p, "released", ""), p))
     ELSE Commit(TerminalDecision(
                   [Here EXCEPT !.r.error = "release error",
                                !.proc[p].msg = MsgRelease], p))
  /\ UNCHANGED options

\* run() after `await this.internalRelease()`: lines 288, 299-330 or the catch
ReleaseDone(p, ok) ==
  /\ proc[p].pc = "release"
  /\ IF ok
     THEN Commit(TerminalDecision(Emit(Here, p, "released", ""), p))
     ELSE Commit(CatchPhase(Here, p, "release error", MsgRelease))
  /\ UNCHANGED options

\* run() after `await this._executeInternalFinally()` of lines 304-328
TerminalFinallyDone(p, ok) ==
  /\ proc[p].pc = "termFin"
  /\ LET s1 == ExecuteInternalFinallyTail(Here, p, ok)
         t == proc[p].term
         s2 == Emit(s1, p, t,
                    CASE t = Stopped -> s1.r.stoppingReason
                      [] t = Failed -> s1.r.failureReason
                      [] OTHER -> "")
     IN Commit(Goto(ResetIfMultiMode(s2), p, "returned"))
  /\ UNCHANGED options

\* run() after `await this._executeInternalFinally()` of a catch block
ErrorFinallyDone(p, ok) ==
  /\ proc[p].pc = "errFin"
  /\ LET s1 == ExecuteInternalFinallyTail(Here, p, ok)
         s2 == Emit(s1, p, Error, proc[p].msg)
     IN Commit(Goto(ResetIfMultiMode(s2), p, "returned"))
  /\ UNCHANGED options


\* ---------------------------------------------------------------- stop()
\* a stop() that stores its reason before the status switch rejects it
StopRejectedKeepsReason ==
  /\ \/ r.status \notin {Running, Preparing}
     \/ r.status = Running /\ r.runHasFinished
  /\ NoneReturned
  /\ FreeProcs # {}
  /\ proc' = [proc EXCEPT ![NewProc] =
                [NoProc EXCEPT
                   !.kind = "stop", !.pc = "rejected", !.how = "warning",
                   !.msg =
                     CASE r.status = Idle -> "Stop was called but runner is not running"
                       [] r.status = Stopping -> "Stop was called but runner is already stopping"
                       [] r.status = Skipped -> "Stop was called but runner was skipped"
                       [] r.status = Releasing -> "Stop was called but runner is releasing"
                       [] OTHER -> "Stop was called but runner has already finished"]]
  /\ r' = [r EXCEPT !.stoppingReason = StopReason(NewProc)]
  /\ UNCHANGED options

StopRejected ==
  /\ \/ r.status \notin {Running, Preparing}
     \/ r.status = Running /\ r.runHasFinished
  /\ EmitWarningOrThrow("stop",
       CASE r.status = Idle -> "Stop was called but runner is not running"
         [] r.status = Stopping -> "Stop was called but runner is already stopping"
         [] r.status = Skipped -> "Stop was called but runner was skipped"
         [] r.status = Releasing -> "Stop was called but runner is releasing"
         [] OTHER -> "Stop was called but runner has already finished")

\* waitForStatusLevel(status) called by invocation p
WaitForStatusLevel(s, p, st) ==
  IF STATUS_LEVEL_MAP(st) <= STATUS_LEVEL_MAP(s.r.status)
  THEN Goto(s, p, "returned")
  ELSE Goto([s EXCEPT !.proc[p].level = STATUS_LEVEL_MAP(st)], p, "wait")

\* stop() from the call to its first await (lines 371-379)
StopAccepted ==
  /\ \/ r.status = Preparing
     \/ r.status = Running /\ ~r.runHasFinished
  /\ FreeProcs # {}
  /\ LET p == NewProc
         reason == StopReason(p)
         s0 == [r |-> [r EXCEPT !.stoppingReason = reason],
                proc |-> [proc EXCEPT ![p] = [NoProc EXCEPT !.kind = "stop"]]]
     IN IF r.status = Running
        THEN Commit(Goto(CallHook(s0, p, "stop"), p, "sHook"))
        ELSE LET s1 == [s0 EXCEPT !.r.markedAsStopping = TRUE]
             IN Commit(WaitForStatusLevel(s1, p,
                         IF s1.r.timedOut THEN TimedOut ELSE Stopped))
  /\ UNCHANGED options

\* _attemptStop(true) called from stop(), after `await this.internalStop()`
StopHookDone(p, ok) ==
  /\ proc[p].pc = "sHook"
  /\ Commit(Goto(IF ok THEN AttemptStopTail(Here, p)
                 ELSE AttemptStopCatch(Here, p), p, "sAfter"))
  /\ UNCHANGED options

\* stop() after `await this._attemptStop()`: line 379
StopWaits(p) ==
  /\ proc[p].pc = "sAfter"
  /\ Commit(WaitForStatusLevel(Here, p,
              IF r.timedOut THEN TimedOut ELSE Stopped))
  /\ UNCHANGED options

\* ------------------------------------------------ waitForStatusLevel()
\* a caller calls waitForStatusLevel(st); the invocation keeps the level of
\* st, and waits, if it has to, for the events of the statuses of that level
WaitCalled(st) ==
  /\ FreeProcs # {}
  /\ LET p == NewProc
         s0 == [r |-> r,
                proc |-> [proc EXCEPT ![p] =
                            [NoProc EXCEPT !.kind = "wait",
                                           !.level = STATUS_LEVEL_MAP(st)]]]
     IN Commit(WaitForStatusLevel(s0, p, st))
  /\ UNCHANGED options

\* ---------------------------------------------------------------- skip()
SkipRejected ==
  /\ r.status # Idle
  /\ EmitWarningOrThrow("skip",
       IF r.status = Skipped
       THEN "Skip was called but runner is already skipped"
       ELSE "Skip was called but runner can only be skipped when idle")

SkipAccepted(reason) ==
  /\ r.status = Idle
  /\ FreeProcs # {}
  /\ LET p == NewProc
         s0 == [r |-> r,
                proc |-> [proc EXCEPT ![p] = [NoProc EXCEPT !.kind = "skip"]]]
         s1 == [SetStatus(s0, p, Skipped) EXCEPT !.r.skipReason = reason]
     IN Commit(Goto(CallHook(s1, p, "finally"), p, "skipFin"))
  /\ UNCHANGED options

SkipFinallyDone(p, ok) ==
  /\ proc[p].pc = "skipFin"
  /\ LET s1 == ExecuteInternalFinallyTail(Here, p, ok)
         s2 == Emit(s1, p, Skipped, s1.r.skipReason)
     IN Commit(Goto(ResetIfMultiMode(s2), p, "returned"))
  /\ UNCHANGED options

\* ---------------------------------------------------------------- fail()
FailRejected ==
  /\ r.status # Idle
  /\ EmitWarningOrThrow("fail",
       IF r.status = Failed
       THEN "Fail was called but runner is already failed"
       ELSE "Fail was called but runner can only be failed when idle")

FailAccepted(reason) ==
  /\ r.status = Idle
  /\ FreeProcs # {}
  /\ LET p == NewProc
         s0 == [r |-> r,
                proc |-> [proc EXCEPT ![p] = [NoProc EXCEPT !.kind = "fail"]]]
         s1 == [SetStatus(s0, p, Failed) EXCEPT
                  !.r.failureReason = reason,
                  !.r.finishedAt = TRUE, !.r.measurement = TRUE]
     IN Commit(Goto(CallHook(s1, p, "finally"), p, "failFin"))
  /\ UNCHANGED options

FailFinallyDone(p, ok) ==
  /\ proc[p].pc = "failFin"
  /\ LET s1 == ExecuteInternalFinallyTail(Here, p, ok)
         s2 == Emit(s1, p, Failed, s1.r.failureReason)
     IN Commit(Goto(ResetIfMultiMode(s2), p, "returned"))
  /\ UNCHANGED options

\* ------------------------------------------------------------------ Next
\* the callers take the outcome of the calls that returned
CallsReturn ==
  /\ \E p \in Procs : proc[p].pc \in {"returned", "rejected"}
  /\ proc' = [p \in Procs |-> IF proc[p].pc \in {"returned", "rejected"}
                               THEN Returned(proc[p]) ELSE proc[p]]
  /\ UNCHANGED <<options, r>>

Next ==
  \/ RunRejected
  \/ RunAccepted
  \/ \E p \in Procs : CheckForStopping(p)
  \/ \E p \in Procs, ok \in BOOLEAN : CheckForStoppingFinally(p, ok)
  \/ \E p \in Procs : RunAfterCheck(p)
  \/ \E p \in Procs, ok \in BOOLEAN : PrepareDone(p, ok)
  \/ \E p \in Procs, ok \in BOOLEAN : DispatchStopHookDone(p, ok)
  \/ \E p \in Procs : StartAwaitingRun(p)
  \/ \E p \in Procs, o \in Settled : InternalRunSettles(p, o)
  \/ \E p \in Procs : RaceWonByRun(p)
  \/ \E p \in Procs : TimerFires(p)
  \/ \E p \in Procs : RaceWonByTimeout(p)
  \/ \E p \in Procs : AwaitRunSettled(p)
  \/ \E p \in Procs, ok \in BOOLEAN : ReleaseDone(p, ok)
  \/ \E p \in Procs, ok \in BOOLEAN : TerminalFinallyDone(p, ok)
  \/ \E p \in Procs, ok \in BOOLEAN : ErrorFinallyDone(p, ok)
  \/ StopRejected
  \/ StopAccepted
  \/ \E p \in Procs, ok \in BOOLEAN : StopHookDone(p, ok)
  \/ \E p \in Procs : StopWaits(p)
  \/ SkipRejected
  \/ \E reason \in SkipReasons : SkipAccepted(reason)
  \/ \E p \in Procs, ok \in BOOLEAN : SkipFinallyDone(p, ok)
  \/ FailRejected
  \/ \E reason \in FailReasons : FailAccepted(reason)
  \/ \E p \in Procs, ok \in BOOLEAN : FailFinallyDone(p, ok)
  \/ CallsReturn

Spec == Init /\ [][Next]_vars

\* the runner with callers of waitForStatusLevel besides those of run(),
\* stop(), skip() and fail(), for the option sets of WaitConfigs
WaitConfigs ==
  {Options(Single, Always, Never, FALSE), Options(Multi, Always, Always, TRUE)}

InitWait == Init /\ options \in WaitConfigs

NextWait ==
  \/ Next
  \/ \E st \in Status : WaitCalled(st)

SpecWait == InitWait /\ [][NextWait]_vars

TypeOK ==
  /\ r.status \in Status
  /\ r.timeout \in {0} \cup Procs
  /\ \A p \in Procs :
       proc[p].kind \in {"none", "run", "stop", "skip", "fail", "wait",
                         "other"}

\* ------------------------------------------------------------ properties
Indices(log, P(_)) == {i \in DOMAIN log : P(log[i])}

IsFinallyCall(e) == e = <<"call", "finally", "">>
IsTerminalSet(e) == e[1] = "set" /\ e[2] \in Terminal
\* the event that announces the terminal status; the 'error' events of a
\* failed internalFinally or internalStop are not of that kind
IsTerminalEvent(e) ==
  e[1] = "emit" /\ e[2] \in Terminal /\ e[3] \notin {MsgFinally, MsgStop}

Emitted(p, name, detail) ==
  \E i \in DOMAIN proc[p].log : proc[p].log[i] = <<"emit", name, detail>>

\* an accepted run(), skip() or fail() that is in progress or just returned
Lifecycle(p) ==
  proc[p].kind \in {"run", "skip", "fail"}
    /\ proc[p].pc \notin {"unused", "rejected", "done"}

\* C1: every accepted run(), skip() or fail() calls internalFinally exactly
\* once, after it assigned the terminal status and before it publishes the
\* terminal event, whatever the terminal status and whether or not
\* internalFinally throws.
C1_FinallyExactlyOnce ==
  \A p \in Procs : Lifecycle(p) =>
    LET L == proc[p].log
        F == Indices(L, IsFinallyCall)
        S == Indices(L, IsTerminalSet)
        E == Indices(L, IsTerminalEvent)
    IN /\ Cardinality(F) <= 1
       /\ \A f \in F : \E t \in S : t < f
       /\ \A e \in E : \E f \in F : f < e
       /\ proc[p].pc = "returned" => Cardinality(F) = 1 /\ E # {}

\* a run() that timed out returned, and its internalFinally threw
C1_Witness ==
  \E p \in Procs :
    /\ proc[p].kind = "run" /\ proc[p].pc = "returned"
    /\ Emitted(p, Error, MsgFinally)
    /\ Emitted(p, TimedOut, "")

\* C2: every accepted run(), skip() or fail() assigns exactly one terminal
\* status and publishes exactly one terminal event, the one of that status,
\* under any interleaving of stop() calls, hook completions and timers.
C2_ExactlyOneTerminal ==
  \A p \in Procs : Lifecycle(p) =>
    LET L == proc[p].log
        S == Indices(L, IsTerminalSet)
        E == Indices(L, IsTerminalEvent)
    IN /\ Cardinality(S) <= 1
       /\ Cardinality(E) <= 1
       /\ \A e \in E : \E t \in S : t < e /\ L[t][2] = L[e][2]
       /\ proc[p].pc = "returned" => Cardinality(S) = 1 /\ Cardinality(E) = 1

\* a run() returned Stopped after a stop() call was accepted and its stop
\* hook completed while the run callback was pending
C2_Witness ==
  \E p, q \in Procs :
    /\ proc[p].kind = "run" /\ proc[p].pc = "returned"
    /\ proc[q].kind = "stop" /\ Emitted(q, Stopping, StopReason(q))
    /\ Emitted(p, Stopped, StopReason(q))

\* the pcs at which a hook called by run() is executing
HookPcs == {"prepare", "rStopHook", "race", "awaitRun", "release"}

\* C3: at most one lifecycle is active at a time: a run() issued while an
\* accepted run() has not settled is rejected, so the hooks of two run()
\* invocations never execute at once.
C3_OneLifecycleAtATime ==
  \A p, q \in Procs :
    (p # q /\ proc[p].kind = "run" /\ proc[q].kind = "run")
      => ~(proc[p].pc \in HookPcs /\ proc[q].pc \in HookPcs)

\* C4: once a run() was accepted, a skip() or fail() that arrives before it
\* settled is rejected.
C4_SkipFailRejectedDuringRun ==
  \A p, q \in Procs :
    (p < q /\ proc[p].kind = "run" /\ Active(proc[p]))
      => ~(proc[q].kind \in {"skip", "fail"} /\ Active(proc[q]))

\* C5: in single-run mode a terminal status never changes again.
C5_TerminalIsPermanent ==
  [][(options.runMode = Single /\ r.status \in Terminal)
       => r'.status = r.status]_vars

Has(L, e) == \E i \in DOMAIN L : L[i] = e
Pos(L, e) == CHOOSE i \in DOMAIN L : L[i] = e

\* the timer of run() p fired while p awaited the race of lines 229-236
TimeoutMark == <<"timeout", "", "">>

\* C6: when the timer fires while the run callback is unresolved, run() does
\* not invoke the stop hook and publishes stopping, releasing, released and
\* timed-out in that order, and the terminal status it assigns is TimedOut.
\* Stated for the lifecycles whose release was invoked and did not throw.
C6_TimeoutPath ==
  \A p \in Procs :
    LET L == proc[p].log
    IN (/\ proc[p].kind = "run" /\ proc[p].pc = "returned"
        /\ Has(L, TimeoutMark) /\ Has(L, <<"emit", "released", "">>))
       => /\ \A i \in DOMAIN L :
               i > Pos(L, TimeoutMark) => L[i] # <<"call", "stop", "">>
          /\ Has(L, <<"emit", Stopping, TimeoutReason>>)
          /\ Has(L, <<"emit", Releasing, "">>)
          /\ Has(L, <<"emit", TimedOut, "">>)
          /\ Pos(L, TimeoutMark) < Pos(L, <<"emit", Stopping, TimeoutReason>>)
          /\ Pos(L, <<"emit", Stopping, TimeoutReason>>)
               < Pos(L, <<"emit", Releasing, "">>)
          /\ Pos(L, <<"emit", Releasing, "">>)
               < Pos(L, <<"emit", "released", "">>)
          /\ Pos(L, <<"emit", "released", "">>)
               < Pos(L, <<"emit", TimedOut, "">>)
          /\ proc[p].term = TimedOut

\* C7: with a timeout configured a run() never depends on the run callback
\* alone: while it awaits the race of lines 229-236 its timer is armed, so
\* that it goes on even if the callback never resolves.
C7_NeverHangs ==
  \A p \in Procs :
    (options.timeout /\ proc[p].kind = "run" /\ proc[p].pc = "race")
      => proc[p].timer

\* C8: once an accepted stop() made the status Stopping, run() goes on to
\* Releasing without the run callback: it is not waiting for the callback.
C8_StopIsNonBlocking ==
  \A p \in Procs :
    (proc[p].kind = "run" /\ r.status = Stopping /\ r.stoppingIsActive)
      => ~(proc[p].pc \in {"race", "awaitRun"}
             /\ proc[p].runPromise = "pending")

\* C9: the run callback that a timeout left in the background (its
\* then-callback attached, run() no longer awaiting the race) settles without
\* changing status, failureReason, error or finishedAt.
C9_BackgroundSettleSwallowed ==
  [][\A p \in Procs :
       (/\ proc[p].thenAttached /\ proc[p].runPromise = "pending"
        /\ proc[p].pc # "race"
        /\ proc'[p].runPromise # "pending")
       => /\ r'.status = r.status
          /\ r'.failureReason = r.failureReason
          /\ r'.error = r.error
          /\ r'.finishedAt = r.finishedAt]_vars

\* C10: a stop(reason) accepted while Running invoked the stop hook, and when
\* it returns a run() has gone through Releasing to Stopped and published
\* the stopped event with that reason.  Stated for the runners that release,
\* when no hook or callback threw and no timer fired.
C10_StopWhileRunning ==
  \A q \in Procs :
    (/\ proc[q].kind = "stop" /\ proc[q].pc = "returned"
     /\ Has(proc[q].log, <<"call", "stop", "">>)
     /\ shouldRelease /\ ~r.timedOut /\ r.error = ""
     /\ \A x \in Procs : \A i \in DOMAIN proc[x].log :
          ~(proc[x].log[i][1] = "emit" /\ proc[x].log[i][2] = Error))
    => \E p \in Procs :
         LET L == proc[p].log
         IN /\ proc[p].kind = "run" /\ proc[p].pc = "returned"
            /\ Has(L, <<"set", Releasing, "">>)
            /\ Has(L, <<"set", Stopped, "">>)
            /\ Pos(L, <<"set", Releasing, "">>) < Pos(L, <<"set", Stopped, "">>)
            /\ Has(L, <<"emit", Stopped, StopReason(q)>>)

\* C11: a stop() accepted while Preparing is honored before Running begins:
\* no run() invokes the run callback while markedAsStopping is set.
C11_StopWhilePreparing ==
  [][\A p \in Procs :
       (/\ ~Has(proc[p].log, <<"call", "run", "">>)
        /\ Has(proc'[p].log, <<"call", "run", "">>))
       => ~r.markedAsStopping]_vars

\* the message of the stop() rejection in each status that forbids stop()
StopRejectionMessage(st) ==
  CASE st = Idle -> "Stop was called but runner is not running"
    [] st = Stopping -> "Stop was called but runner is already stopping"
    [] st = Releasing -> "Stop was called but runner is releasing"
    [] st = Skipped -> "Stop was called but runner was skipped"
    [] OTHER -> "Stop was called but runner has already finished"

\* C12: a stop() called while the status is Idle, Stopping, Releasing,
\* Skipped, Failed, Error, Succeeded, Stopped or TimedOut is rejected with
\* the message of that status; the runner's fields (status, stoppingReason,
\* every flag) and every other invocation are unchanged and the call invokes
\* no hook and publishes no lifecycle event.
C12_StopRejectedNoEffect ==
  [][\A p \in Procs :
       (/\ proc[p].kind = "none" /\ proc'[p].kind = "stop"
        /\ r.status \notin {Running, Preparing})
       => /\ proc'[p].pc = "rejected"
          /\ proc'[p].msg = StopRejectionMessage(r.status)
          /\ proc'[p].log = <<>>
          /\ r' = r
          /\ \A x \in Procs \ {p} : proc'[x] = proc[x]]_vars

\* a stop() was rejected with a warning while the runner was releasing
C12_Witness ==
  \E p \in Procs :
    /\ proc[p].kind = "stop" /\ proc[p].pc = "rejected"
    /\ proc[p].how = "warning" /\ r.status = Releasing
    /\ proc[p].msg = "Stop was called but runner is releasing"

\* C13: when the stop hook called by an accepted stop() completes, by
\* returning or by throwing, the status advances to Stopping and the stop is
\* active, so that the lifecycle goes on to Releasing as a stopped one.
C13_StopHookThrowsStillStopping ==
  [][\A q \in Procs :
       (proc[q].kind = "stop" /\ proc[q].pc = "sHook" /\ proc'[q].pc = "sAfter")
       => r'.status = Stopping /\ r'.stoppingIsActive]_vars

\* the priority order of the terminal status, on the fields x of the runner
TerminalPriority(x) ==
  CASE x.stoppingIsActive /\ x.timedOut -> TimedOut
    [] x.stoppingIsActive /\ ~x.timedOut -> Stopped
    [] ~x.stoppingIsActive /\ x.failureReason # "" -> Failed
    [] OTHER -> Succeeded

\* C14: when run() takes the terminal decision (release completed, or was
\* skipped by policy) the status it assigns follows the priority order on
\* the fields stoppingIsActive, timedOut and failureReason as they are then.
C14_TerminalPriority ==
  [][\A p \in Procs :
       (proc[p].pc # "termFin" /\ proc'[p].pc = "termFin")
       => /\ r'.status = TerminalPriority(r')
          /\ proc'[p].term = r'.status]_vars

\* a run() whose callback returned a failure reason after a stop was applied
\* decided Stopped
C14_Witness ==
  \E p \in Procs :
    /\ proc[p].kind = "run" /\ proc[p].pc = "termFin"
    /\ proc[p].term = Stopped /\ r.status = Stopped
    /\ r.failureReason = "f1" /\ r.stoppingIsActive /\ ~r.timedOut

IsHookCall(e) == e[1] = "call" /\ e[2] # "finally"

\* C16: when internalPrepare or internalRelease throws, run() enters the
\* catch of that phase: status is Error and error the thrown value, and
\* internalFinally is called.  From there on the invocation calls no other
\* hook, assigns no other status and publishes only error events, the last
\* one with the message of the phase; a prepare failure never calls
\* internalRun or internalRelease.
C16_PrepareOrReleaseThrows ==
  /\ [][\A p \in Procs :
          (proc[p].msg \notin {MsgPrepare, MsgRelease}
             /\ proc'[p].msg \in {MsgPrepare, MsgRelease})
          => /\ r'.status = Error
             /\ r'.error = (IF proc'[p].msg = MsgPrepare THEN "prepare error"
                            ELSE "release error")
             /\ proc'[p].pc = "errFin"
             /\ proc'[p].log[Len(proc'[p].log)] = <<"call", "finally", "">>]_vars
  /\ [](\A p \in Procs :
          LET L == proc[p].log
          IN (proc[p].kind = "run" /\ proc[p].msg \in {MsgPrepare, MsgRelease}
                /\ L # <<>>)
             => /\ Has(L, <<"set", Error, "">>)
                /\ Indices(L, IsTerminalSet) = {Pos(L, <<"set", Error, "">>)}
                /\ \A i \in DOMAIN L :
                     i > Pos(L, <<"set", Error, "">>)
                       => /\ ~IsHookCall(L[i])
                          /\ L[i][1] # "set"
                          /\ L[i][1] = "emit" => L[i][2] = Error
                /\ Cardinality(Indices(L, IsFinallyCall)) = 1
                /\ (proc[p].msg = MsgPrepare
                      => /\ ~Has(L, <<"call", "run", "">>)
                         /\ ~Has(L, <<"call", "release", "">>))
                /\ (proc[p].pc = "returned"
                      => L[Len(L)] = <<"emit", Error, proc[p].msg>>))

\* in single-run mode a run() that had timed out returned Error because its
\* internalRelease threw
C16_Witness ==
  \E p \in Procs :
    /\ proc[p].kind = "run" /\ proc[p].pc = "returned"
    /\ options.runMode = Single /\ r.timedOut /\ r.stoppingIsActive
    /\ Has(proc[p].log, TimeoutMark)
    /\ Emitted(p, Error, MsgRelease) /\ r.status = Error

\* C17: a run() whose run callback resolved with the failure reason "f1",
\* which released and did not end Stopped or TimedOut (no stop or timeout was
\* active), ends Failed and publishes, after releasing and released, the
\* failed event with that reason.
C17_SoftFailure ==
  \A p \in Procs :
    LET L == proc[p].log
    IN (/\ proc[p].kind = "run" /\ proc[p].pc = "returned"
        /\ Has(L, <<"result", "f1", "">>)
        /\ Has(L, <<"emit", "released", "">>)
        /\ proc[p].term \notin {Stopped, TimedOut})
       => /\ proc[p].term = Failed
          /\ Has(L, <<"emit", Failed, "f1">>)
          /\ Pos(L, <<"result", "f1", "">>) < Pos(L, <<"call", "release", "">>)
          /\ Pos(L, <<"emit", Releasing, "">>) < Pos(L, <<"emit", "released", "">>)
          /\ Pos(L, <<"emit", "released", "">>) < Pos(L, <<"emit", Failed, "f1">>)

C19_SkipFromIdle ==
  /\ [][\A p \in Procs :
          (proc[p].kind = "none" /\ proc'[p].kind = "skip")
          => IF r.status = Idle
             THEN /\ r'.status = Skipped
                  /\ r'.skipReason \in SkipReasons
                  /\ startedAt(r') = "null"
                  /\ proc'[p].log = << <<"set", Skipped, "">>,
                                       <<"call", "finally", "">> >>
             ELSE proc'[p].pc = "rejected" /\ r' = r]_vars
  /\ [](\A p \in Procs :
          proc[p].kind = "skip" /\ proc[p].pc \in {"skipFin", "returned"}
          => LET L == proc[p].log
             IN /\ \A i \in DOMAIN L :
                     \/ L[i] \in {<<"set", Skipped, "">>, <<"call", "finally", "">>,
                                  <<"emit", Error, MsgFinally>>}
                     \/ L[i][1] = "emit" /\ L[i][2] = Skipped /\ L[i][3] \in SkipReasons
                /\ proc[p].pc = "returned"
                     => Cardinality(Indices(L, IsTerminalEvent)) = 1)
  /\ [](options.runMode = Single /\ r.skipReason # ""
          => startedAt(r) = "null")
  /\ [][\A p \in Procs :
          (/\ options.runMode = Single /\ r.skipReason # ""
           /\ proc[p].kind = "none" /\ proc'[p].kind \in {"run", "skip"})
          => /\ proc'[p].pc = "rejected"
             /\ proc'[p].msg =
                  IF proc'[p].kind = "run"
                  THEN "Run was called but runner has already finished"
                  ELSE "Skip was called but runner is already skipped"]_vars

\* C20: fail(reason) is accepted exactly when the status is Idle; it then sets
\* status Failed, failureReason, startedAt, finishedAt and measurement, calls
\* internalFinally and no other callback and publishes only the failed event
\* (besides the error event of a failing internalFinally), and when it
\* returns the failure reason is the one it was given and, on a single-run
\* runner, the status is Failed; from any other status it is rejected with
\* 'already failed' (Failed) or 'can only be failed when idle' and changes
\* nothing.
C20_FailFromIdle ==
  /\ [][\A p \in Procs :
          (proc[p].kind = "none" /\ proc'[p].kind = "fail")
          => IF r.status = Idle
             THEN /\ r'.status = Failed
                  /\ r'.failureReason \in FailReasons
                  /\ startedAt(r') = "date"
                  /\ r'.finishedAt /\ r'.measurement
                  /\ proc'[p].log = << <<"set", Failed, "">>,
                                       <<"call", "finally", "">> >>
             ELSE /\ proc'[p].pc = "rejected"
                  /\ proc'[p].msg =
                       IF r.status = Failed
                       THEN "Fail was called but runner is already failed"
                       ELSE "Fail was called but runner can only be failed when idle"
                  /\ r' = r]_vars
  /\ [](\A p \in Procs :
          proc[p].kind = "fail" /\ proc[p].pc \in {"failFin", "returned"}
          => LET L == proc[p].log
             IN /\ \A i \in DOMAIN L :
                     \/ L[i] \in {<<"set", Failed, "">>, <<"call", "finally", "">>,
                                  <<"emit", Error, MsgFinally>>}
                     \/ L[i][1] = "emit" /\ L[i][2] = Failed
                /\ proc[p].pc = "returned"
                     => /\ Cardinality(Indices(L, IsTerminalEvent)) = 1
                        /\ r.failureReason \in FailReasons
                        /\ options.runMode = Single => r.status = Failed)

\* the message of the rejection of call k when the fields of the runner are x
MisuseMessage(k, x) ==
  CASE k = "run" ->
         IF x.status \in {Running, Preparing, Releasing}
         THEN "Run was called but runner is already running"
         ELSE "Run was called but runner has already finished"
    [] k = "stop" -> StopRejectionMessage(x.status)
    [] k = "skip" ->
         IF x.status = Skipped
         THEN "Skip was called but runner is already skipped"
         ELSE "Skip was called but runner can only be skipped when idle"
    [] OTHER ->
         IF x.status = Failed
         THEN "Fail was called but runner is already failed"
         ELSE "Fail was called but runner can only be failed when idle"

\* the status (for stop() also the runHasFinished flag) forbids call k
Forbidden(k, x) ==
  IF k = "stop"
  THEN \/ x.status \notin {Running, Preparing}
       \/ x.status = Running /\ x.runHasFinished
  ELSE x.status # Idle

Quiescent ==
  \A q \in Procs :
    proc[q].kind \in {"run", "stop", "skip", "fail"} => ~Active(proc[q])

\* C22: waitForStatusLevel(S) returns at once exactly when the level of the
\* current status is at least the level of S, and a caller that has to wait
\* is resolved once the runner has progressed to a status of that level or
\* beyond: when no call is in progress any more, nobody is left waiting for a
\* level the status has reached.
C22_WaitForStatusLevel ==
  /\ [][\A p \in Procs :
          (proc[p].kind = "none" /\ proc'[p].kind = "wait")
          => /\ r' = r
             /\ proc'[p].pc =
                  IF proc'[p].level <= STATUS_LEVEL_MAP(r.status)
                  THEN "returned" ELSE "wait"]_vars
  /\ [](\A p \in Procs :
          (proc[p].kind = "wait" /\ proc[p].pc = "wait" /\ Quiescent)
          => STATUS_LEVEL_MAP(r.status) < proc[p].level)

\* C23: in multi-run mode the runner is Idle whenever no accepted run(),
\* skip() or fail() is in progress, in particular when such a call returns,
\* whatever the outcomes of the lifecycles so far and whatever stop() calls
\* were made: the next run() is accepted.
C23_MultiRunReturnsToIdle ==
  (/\ options.runMode = Multi
   /\ \A p \in Procs :
        proc[p].kind \in {"run", "skip", "fail"} => ~Active(proc[p]))
  => r.status = Idle

\* C24: a run() invokes internalPrepare in every run in single-run mode and
\* under 'always', in no run under 'never', and under 'on-first-run' exactly
\* when no earlier prepare has completed on the instance: it never invokes
\* prepare once one has completed or while one is in progress, and it never
\* goes on to the run callback without having prepared unless one has.
C24_PreparePolicy ==
  [][\A p \in Procs :
       LET policy == options.prepareOnMultiMode
           prepares == /\ ~Has(proc[p].log, <<"call", "prepare", "">>)
                       /\ Has(proc'[p].log, <<"call", "prepare", "">>)
           runs == /\ ~Has(proc[p].log, <<"call", "run", "">>)
                   /\ Has(proc'[p].log, <<"call", "run", "">>)
       IN /\ prepares =>
               \/ options.runMode = Single
               \/ policy = Always
               \/ /\ policy = OnFirstRun /\ ~r.prepared
                  /\ \A q \in Procs \ {p} : proc[q].pc # "prepare"
          /\ runs =>
               \/ Has(proc'[p].log, <<"call", "prepare", "">>)
               \/ options.runMode = Multi /\ policy = Never
               \/ options.runMode = Multi /\ policy = OnFirstRun /\ r.prepared]_vars

\* the transient flags of the runner are cleared in x
FlagsCleared(x) ==
  /\ ~x.markedAsStopping /\ ~x.stoppingIsActive
  /\ ~x.runHasFinished /\ ~x.timedOut /\ ~x.finishedAt

\* C25: in multi-run mode the step in which an accepted run(), skip() or
\* fail() ends its lifecycle leaves markedAsStopping, stoppingIsActive,
\* runHasFinished and timedOut false and finishedAt null and does not touch
\* the prepared flag; and whenever a run() is accepted, those flags are false
\* and finishedAt is null.
C25_ResetClearsFlags ==
  [][\A p \in Procs :
       /\ (/\ options.runMode = Multi
           /\ proc[p].pc \in {"termFin", "errFin", "skipFin", "failFin", "chkFin"}
           /\ proc'[p].pc # proc[p].pc)
          => /\ FlagsCleared(r') /\ r'.status = Idle
             /\ r'.prepared = r.prepared
       /\ (/\ proc[p].kind = "none" /\ proc'[p].kind = "run"
           /\ proc'[p].pc # "rejected")
          => FlagsCleared(r)]_vars

\* C26: at every suspension point, in single-run and in multi-run mode,
\* finishedAt is non-null if and only if measurement is non-null.
C26_FinishedAtIffMeasurement ==
  r.finishedAt <=> r.measurement

\* C27: finishedAt and measurement are non-null in every terminal status a
\* lifecycle reaches (Succeeded, Failed, Error, Stopped, TimedOut) and, on a
\* single-run runner, null in every non-terminal status.
C27_FinishedAtWhenTerminal ==
  /\ r.status \in {Succeeded, Failed, Error, Stopped, TimedOut}
       => r.finishedAt /\ r.measurement
  /\ (options.runMode = Single /\ r.status \notin Terminal)
       => ~r.finishedAt /\ ~r.measurement

\* what a run() with all phases does when nothing goes wrong
HappyPath ==
  << <<"set", Preparing, "">>, <<"emit", Preparing, "">>,
     <<"call", "prepare", "">>, <<"emit", "prepared", "">>,
     <<"set", Running, "">>, <<"emit", Running, "">>,
     <<"call", "run", "">>, <<"result", "", "">>,
     <<"set", Releasing, "">>, <<"emit", Releasing, "">>,
     <<"call", "release", "">>, <<"emit", "released", "">>,
     <<"set", Succeeded, "">>, <<"call", "finally", "">>,
     <<"emit", Succeeded, "">> >>

\* C28: on a runner without timeout whose policies include prepare and
\* release, a run() that is the only call made, whose callbacks did not throw
\* and whose run callback returned no failure reason, publishes preparing,
\* prepared, running, releasing, released and succeeded in that order,
\* nothing else, each begin event before the callback of its phase and each
\* end event after it, and leaves the status Succeeded (Idle after the reset
\* of multi-run mode).
C28_HappyPath ==
  \A p \in Procs :
    LET L == proc[p].log
    IN (/\ proc[p].kind = "run" /\ proc[p].pc # "rejected"
        /\ \A q \in Procs \ {p} : proc[q].kind = "none"
        /\ ~options.timeout /\ shouldRelease
        /\ options.runMode = Single \/ options.prepareOnMultiMode # Never
        /\ \A i \in DOMAIN L : L[i][2] # Error /\ L[i] # <<"result", "f1", "">>)
       => /\ Len(L) <= Len(HappyPath)
          /\ L = SubSeq(HappyPath, 1, Len(L))
          /\ proc[p].pc = "returned"
               => /\ L = HappyPath
                  /\ r.status = IF options.runMode = Single THEN Succeeded
                                ELSE Idle

\* the only call made on a single-run runner, a run(), returned after the
\* six events; the status is Succeeded
C28_Witness ==
  \E p \in Procs :
    /\ proc[p].kind = "run" /\ proc[p].pc = "returned"
    /\ \A q \in Procs \ {p} : proc[q].kind = "none"
    /\ options.runMode = Single /\ ~options.timeout
    /\ proc[p].log = HappyPath
    /\ r.status = Succeeded /\ r.failureReason = ""

\* C29: when an accepted run() returns, it has called internalFinally and
\* published its terminal event, and the status is terminal in single-run
\* mode and Idle in multi-run mode, never Preparing, Running, Stopping or
\* Releasing.  Stated for a run() beside which only stop() calls were made.
C29_RunReturnsSettled ==
  \A p \in Procs :
    (/\ proc[p].kind = "run" /\ proc[p].pc = "returned"
     /\ \A q \in Procs \ {p} : proc[q].kind \in {"none", "stop"})
    => LET L == proc[p].log
       IN /\ Has(L, <<"call", "finally", "">>)
          /\ Indices(L, IsTerminalEvent) # {}
          /\ r.status \in IF options.runMode = Single THEN Terminal ELSE {Idle}

\* C30: on a runner whose policy includes release, a run() whose prepare
\* completed and which assigns Stopped has invoked internalRelease before:
\* Releasing is not skipped when Preparing succeeded.
C30_ReleaseIfPrepared ==
  \A p \in Procs :
    LET L == proc[p].log
    IN (/\ proc[p].kind = "run" /\ shouldRelease
        /\ Has(L, <<"emit", "prepared", "">>)
        /\ Has(L, <<"set", Stopped, "">>))
       => /\ Has(L, <<"call", "release", "">>)
          /\ Pos(L, <<"call", "release", "">>) < Pos(L, <<"set", Stopped, "">>)

\* C31: a caller waiting in waitForStatusLevel(S) is resolved only by a step
\* that takes the runner to, or finds it at, a status of level at least
\* level(S) (the step may end with the reset of multi-run mode).  Stated for
\* a single run() beside which only stop() and waitForStatusLevel() calls
\* were made.
C31_WaitNotResolvedEarly ==
  [][\A p \in Procs :
       (/\ proc[p].pc = "wait" /\ proc'[p].pc = "returned"
        /\ \A q \in Procs : proc[q].kind \in {"none", "run", "stop", "wait"}
        /\ Cardinality({q \in Procs : proc[q].kind = "run"}) <= 1)
       => \/ proc[p].level <= STATUS_LEVEL_MAP(r.status)
          \/ proc[p].level <= STATUS_LEVEL_MAP(r'.status)]_vars

\* the pcs at which a run() is in its run phase past the race or the await
RunPhaseEndPcs == {"awaitRun", "raceDone", "tmoStop"}

\* C32: a run() whose run phase completed without throwing goes on to
\* Releasing, publishes releasing and invokes internalRelease in single-run
\* mode and in multi-run mode with releaseOnMultiMode 'always'; with 'never',
\* which is what the constructor sets when the option is omitted, it goes on
\* to the terminal decision, and no run() ever invokes internalRelease or
\* publishes releasing or released.
C32_ReleasePolicy ==
  /\ Constructor([runMode |-> Multi]).releaseOnMultiMode = Never
  /\ Constructor([runMode |-> Multi]) \in Configs
  /\ [][\A p \in Procs :
          (/\ proc[p].kind = "run" /\ proc[p].pc \in RunPhaseEndPcs
           /\ proc'[p].pc \notin RunPhaseEndPcs \cup {"errFin"})
          => LET L == proc'[p].log
                 n == Len(L)
             IN IF options.runMode = Single \/ options.releaseOnMultiMode = Always
                THEN /\ proc'[p].pc = "release" /\ r'.status = Releasing
                     /\ n >= 3
                     /\ SubSeq(L, n - 2, n) =
                          << <<"set", Releasing, "">>, <<"emit", Releasing, "">>,
                             <<"call", "release", "">> >>
                ELSE /\ proc'[p].pc = "termFin"
                     /\ ~Has(L, <<"call", "release", "">>)]_vars
  /\ [](\A p \in Procs :
          (options.runMode = Multi /\ options.releaseOnMultiMode = Never)
          => \A i \in DOMAIN proc[p].log :
               proc[p].log[i] \notin {<<"call", "release", "">>,
                                      <<"emit", Releasing, "">>,
                                      <<"emit", "released", "">>,
                                      <<"set", Releasing, "">>})

\* a run() of a multi-run runner with releaseOnMultiMode 'always' returned
\* Succeeded after releasing and released
C32_Witness ==
  \E p \in Procs :
    /\ proc[p].kind = "run" /\ proc[p].pc = "returned"
    /\ options.runMode = Multi /\ options.releaseOnMultiMode = Always
    /\ Has(proc[p].log, <<"call", "release", "">>)
    /\ Emitted(p, "released", "") /\ Emitted(p, Succeeded, "")

\* C33: once the stop hook of a stop() accepted while Running has returned
\* and the stop was applied, before the timer fired, no timer of the
\* lifecycle is pending any more and the lifecycle does not end TimedOut.
\* Stated for a single run() beside which only stop() calls were made.
C33_StopClearsTimeout ==
  \A p, q \in Procs :
    (/\ proc[p].kind = "run" /\ proc[q].kind = "stop"
     /\ \A x \in Procs \ {p} : proc[x].kind \in {"none", "stop"}
     /\ Emitted(q, Stopping, StopReason(q))
     /\ ~Has(proc[p].log, TimeoutMark))
    => /\ ~proc[p].timer
       /\ ~r.timedOut
       /\ proc[p].term # TimedOut

\* C34: when a run() of a multi-run runner decides Succeeded, the error and
\* the failureReason fields hold no value: what an earlier lifecycle left in
\* them has been overwritten.  Stated for a run() accepted after the earlier
\* lifecycle had ended: under 'on-first-run', beside run() calls only, a
\* run() that did not prepare was accepted when an earlier run() had
\* prepared and had reset the runner to Idle.
C34_OutcomeFieldsOverwritten ==
  [][\A p \in Procs :
       (/\ options.runMode = Multi /\ proc[p].kind = "run"
        /\ options.prepareOnMultiMode = OnFirstRun
        /\ \A q \in Procs \ {p} : proc[q].kind \in {"none", "run"}
        /\ ~Has(proc[p].log, <<"call", "prepare", "">>)
        /\ proc[p].term # Succeeded /\ proc'[p].term = Succeeded)
       => r'.failureReason = "" /\ r'.error = ""]_vars

\* C35: no step lowers the level of the status, except the reset of
\* multi-run mode from a terminal status to Idle; in particular the status
\* never goes back to Stopping from Releasing, a terminal status or Idle.
\* Stated for a single run() beside which only stop() calls were made.
C35_LevelNeverDecreases ==
  [][(/\ \A q \in Procs : proc[q].kind \in {"none", "run", "stop"}
      /\ Cardinality({q \in Procs : proc[q].kind = "run"}) <= 1)
     => \/ STATUS_LEVEL_MAP(r.status) <= STATUS_LEVEL_MAP(r'.status)
        \/ /\ options.runMode = Multi
           /\ r.status \in Terminal /\ r'.status = Idle]_vars

\* C36: in one lifecycle the stop hook is invoked at most once, whatever
\* stop() calls are made: beside a single run(), at most one invocation has
\* called internalStop.
C36_StopHookAtMostOnce ==
  (/\ \A q \in Procs : proc[q].kind \in {"none", "run", "stop"}
   /\ Cardinality({q \in Procs : proc[q].kind = "run"}) <= 1)
  => Cardinality({q \in Procs : Has(proc[q].log, <<"call", "stop", "">>)}) <= 1

\* C37: every accepted stop() returns.  In single-run mode nothing is
\* published any more once the only run() has returned (every later call is
\* rejected), so by then a stop() that called the stop hook is not left
\* waiting for the terminal event.  Stated for the runners in which no hook
\* or callback threw.
C37_AcceptedStopReturns ==
  \A q \in Procs :
    (/\ options.runMode = Single
     /\ proc[q].kind = "stop"
     /\ Has(proc[q].log, <<"call", "stop", "">>)
     /\ r.error = ""
     /\ \A x \in Procs \ {q} :
          /\ proc[x].kind \in {"none", "run"}
          /\ ~Active(proc[x])
          /\ proc[x].pc # "returned")
    => proc[q].pc # "wait"

\* C38: timedOut is set only by the timer of a run() that is awaiting the
\* race of its own run callback: a timer does not fire once the Running
\* phase that armed it is over.  Stated for the runners on which at most one
\* call is in progress.
C38_TimedOutOnlyByOwnTimer ==
  [][(/\ Cardinality({q \in Procs : Active(proc[q])}) <= 1
      /\ ~r.timedOut /\ r'.timedOut)
     => \E p \in Procs :
          /\ proc[p].kind = "run" /\ proc[p].pc = "race"
          /\ proc[p].runPromise = "pending"
          /\ r.status = Running
          /\ proc'[p].pc = "tmoStop"]_vars

\* C39: in multi-run mode the Failed-versus-Succeeded decision of a run()
\* depends only on what its own run callback returned: a run() whose
\* callback returned nothing and that ended Succeeded or Failed ended
\* Succeeded and left no failureReason.  Stated for a run() that follows
\* an earlier lifecycle (under 'on-first-run' it did not prepare) on a runner
\* that received run() calls only, none of them in progress any more.
C39_OwnResultDecides ==
  \A p \in Procs :
    (/\ options.runMode = Multi
     /\ options.prepareOnMultiMode = OnFirstRun
     /\ proc[p].kind = "run" /\ proc[p].pc = "returned"
     /\ ~Has(proc[p].log, <<"call", "prepare", "">>)
     /\ \A q \in Procs \ {p} :
          proc[q].kind \in {"none", "run"} /\ ~Active(proc[q])
     /\ Has(proc[p].log, <<"result", "", "">>)
     /\ proc[p].term \in {Succeeded, Failed})
    => /\ proc[p].term = Succeeded
       /\ \A i \in DOMAIN proc[p].log : proc[p].log[i][2] # Failed

\* C40: at every suspension point of the controller, runHasFinished being
\* true implies that the status is not Running.
C40_FinishedRunNotRunning ==
  r.runHasFinished => r.status # Running

====
